---- MODULE Spec2Model ----
(***************************************************************************)
(* The command-line parameter validation of the icon generator:            *)
(* parseArgv(argv, list) and the validators of its `parsers` registry.     *)
(*                                                                         *)
(* JavaScript values are tagged records:                                   *)
(*   undefined, null, NaN, a number (an integer n), a string (a sequence   *)
(*   s of atoms) and an array (a sequence a of values).                    *)
(* An atom of a string is one character ("f", "7", ",", "#", "-", ...) or  *)
(* an indivisible run of characters: a mode word ("all", "spa", ...), a    *)
(* path segment ("cwd", "icon"), a file extension (".png").  No such run   *)
(* holds a comma or is made of digits or of hexadecimal digits only, and   *)
(* two different atom sequences of the model spell different strings, so   *)
(* splitting at ",", comparing entries and reading digits work on atoms    *)
(* as they do on characters.  The strings given to the color validators    *)
(* are sequences of single characters, so Len is their length.             *)
(***************************************************************************)
EXTENDS Integers, Sequences, FiniteSets

VARIABLES
  argv,    \* the record parseArgv mutates in place: name -> value
  list,    \* the names parseArgv was asked to validate, in order
  pos,     \* index in list of the forEach iteration to run next
  status,  \* "running" | "done" | "dead" (process.exit) | "threw" (TypeError)
  run,     \* 1 for the first parseArgv call on the record, 2 for the second
  raw,     \* history: the record as it was handed to the current call
  calls    \* history: the validators executed by the current call

vars == <<argv, list, pos, status, run, raw, calls>>

(***************************************************************************)
(* Bounds of the model.                                                    *)
(***************************************************************************)
MaxList == 2
MaxTokens == 5
MaxColorLen == 6
MaxNumLen == 3
MaxPadLen == 4
MaxEntries == 3

(***************************************************************************)
(* JavaScript values.                                                      *)
(***************************************************************************)
Undef == [t |-> "undefined"]
Null == [t |-> "null"]
NaN == [t |-> "NaN"]
Num(n) == [t |-> "number", n |-> n]
Str(s) == [t |-> "string", s |-> s]
Arr(a) == [t |-> "array", a |-> a]

IsStr(v) == v.t = "string"
IsNum(v) == v.t = "number"
IsArr(v) == v.t = "array"

\* !value is false exactly for the truthy values
Truthy(v) ==
  CASE v.t = "undefined" -> FALSE
    [] v.t = "null" -> FALSE
    [] v.t = "NaN" -> FALSE
    [] v.t = "number" -> v.n /= 0
    [] v.t = "string" -> v.s /= <<>>
    [] v.t = "array" -> TRUE

Range(f) == {f[i] : i \in DOMAIN f}

DigitChars == <<"0", "1", "2", "3", "4", "5", "6", "7", "8", "9">>

IsDigit(c) == \E d \in 1..10 : DigitChars[d] = c

DigitVal(c) == (CHOOSE d \in 1..10 : DigitChars[d] = c) - 1

RECURSIVE DigitsOf(_)
DigitsOf(n) ==
  IF n < 10 THEN <<DigitChars[n + 1]>>
  ELSE DigitsOf(n \div 10) \o <<DigitChars[(n % 10) + 1]>>

RECURSIVE Join(_)
RECURSIVE ToString(_)
\* String(value): what parseInt, parseFloat and RegExp.test see of a non-string
ToString(v) ==
  CASE v.t = "string" -> v.s
    [] v.t = "number" -> IF v.n < 0 THEN <<"-">> \o DigitsOf(-v.n) ELSE DigitsOf(v.n)
    [] v.t = "NaN" -> <<"NaN">>
    [] v.t = "undefined" -> <<"undefined">>
    [] v.t = "null" -> <<"null">>
    [] v.t = "array" -> Join(v.a)

\* Array.prototype.join(","): undefined and null elements print as ""
Join(a) ==
  IF a = <<>> THEN <<>>
  ELSE LET h == IF a[1].t \in {"undefined", "null"} THEN <<>> ELSE ToString(a[1])
       IN  IF Len(a) = 1 THEN h ELSE h \o <<",">> \o Join(Tail(a))

RECURSIVE SplitFrom(_, _)
\* the segments of s between commas, the segment being read first
SplitFrom(s, cur) ==
  IF s = <<>> THEN <<Str(cur)>>
  ELSE IF s[1] = "," THEN <<Str(cur)>> \o SplitFrom(Tail(s), <<>>)
  ELSE SplitFrom(Tail(s), Append(cur, s[1]))

\* value.split(','): "" splits to [""]
split(s) == SplitFrom(s, <<>>)

\* Array.prototype.includes on a sequence of values
includes(a, v) == \E i \in DOMAIN a : a[i] = v

\* String.prototype.includes('all')
StrIncludesAll(s) ==
  \/ \E i \in DOMAIN s : s[i] = "all"
  \/ \E i \in 1..(Len(s) - 2) : s[i] = "a" /\ s[i + 1] = "l" /\ s[i + 2] = "l"

RECURSIVE SkipSpaces(_)
SkipSpaces(s) == IF s /= <<>> /\ s[1] = " " THEN SkipSpaces(Tail(s)) ELSE s

RECURSIVE LeadingDigits(_)
LeadingDigits(s) ==
  IF s /= <<>> /\ IsDigit(s[1]) THEN <<s[1]>> \o LeadingDigits(Tail(s)) ELSE <<>>

RECURSIVE DigitsValue(_, _)
DigitsValue(ds, acc) ==
  IF ds = <<>> THEN acc ELSE DigitsValue(Tail(ds), acc * 10 + DigitVal(ds[1]))

\* parseInt(value, 10): leading white space, an optional sign, then the
\* longest run of decimal digits; whatever follows is ignored; NaN if none
parseInt(v) ==
  LET s0 == SkipSpaces(ToString(v))
      neg == s0 /= <<>> /\ s0[1] = "-"
      s1 == IF s0 /= <<>> /\ s0[1] \in {"-", "+"} THEN Tail(s0) ELSE s0
      ds == LeadingDigits(s1)
  IN  IF ds = <<>> THEN NaN
      ELSE Num(IF neg THEN -DigitsValue(ds, 0) ELSE DigitsValue(ds, 0))

\* parseFloat(value) on the inputs of the model, none of which holds a
\* decimal point, an exponent or "Infinity": the same leading integer
parseFloat(v) == parseInt(v)

\* isNaN(numeric)
isNaN(v) == v.t = "NaN"

(***************************************************************************)
(* The collaborators: catalogs, defaults, the file system.                 *)
(***************************************************************************)
modesList == Arr(<<Str(<<"spa">>), Str(<<"pwa">>)>>)

generatorKeys == <<Str(<<"png">>), Str(<<"svg">>)>>

defaultParams ==
  [ quality |-> Num(5),
    splashscreenIconRatio |-> Num(40),
    pngColor |-> Str(<<"#", "f", "f", "f">>),
    splashscreenColor |-> Str(<<"#", "f", "f", "f">>),
    svgColor |-> Str(<<"#", "1", "9", "7", "6", "D", "2">>) ]

cwd == <<"/", "cwd">>
appDir == <<"/", "app">>
homeDir == <<"/", "home">>
sampleIcon == <<"/", "pkg", "/", "samples", "/", "icongenie-icon", ".png">>

\* the files of the model: directories, and files with the size getPngSize
\* reads from their header (0 x 0: not a PNG)
disk ==
  [ p \in { cwd \o <<"/", "prof">>,
            cwd \o <<"/", "prof", ".json">>,
            cwd \o <<"/", "notes", ".txt">>,
            cwd \o <<"/", "icon", ".png">>,
            appDir \o <<"/", "small", ".png">>,
            appDir \o <<"/", "wide", ".png">>,
            appDir \o <<"/", "bg", ".png">>,
            appDir \o <<"/", "notes", ".txt">>,
            homeDir \o <<"/", "icon", ".png">>,
            sampleIcon } |->
      CASE p = cwd \o <<"/", "prof">> -> [dir |-> TRUE, width |-> 0, height |-> 0]
        [] p = cwd \o <<"/", "prof", ".json">> -> [dir |-> FALSE, width |-> 0, height |-> 0]
        [] p = cwd \o <<"/", "notes", ".txt">> -> [dir |-> FALSE, width |-> 0, height |-> 0]
        [] p = appDir \o <<"/", "notes", ".txt">> -> [dir |-> FALSE, width |-> 0, height |-> 0]
        [] p = appDir \o <<"/", "small", ".png">> -> [dir |-> FALSE, width |-> 32, height |-> 32]
        [] p = appDir \o <<"/", "wide", ".png">> -> [dir |-> FALSE, width |-> 256, height |-> 100]
        [] p = cwd \o <<"/", "icon", ".png">> -> [dir |-> FALSE, width |-> 64, height |-> 64]
        [] OTHER -> [dir |-> FALSE, width |-> 128, height |-> 128] ]

existsSync(p) == p \in DOMAIN disk

isDirectory(p) == disk[p].dir

getPngSize(p) == [width |-> disk[p].width, height |-> disk[p].height]

\* untildify: a leading "~" becomes the home directory
untildify(s) == IF s /= <<>> /\ s[1] = "~" THEN homeDir \o Tail(s) ELSE s

isAbsolute(p) == p /= <<>> /\ p[1] = "/"

\* path.resolve(base, p) on paths without "." and ".." segments
resolve(base, p) ==
  IF isAbsolute(p) THEN p ELSE IF p = <<>> THEN base ELSE base \o <<"/">> \o p

endsWithJson(s) == s /= <<>> /\ s[Len(s)] = ".json"

(***************************************************************************)
(* The outcome of one validator call: the record as it leaves it, how the  *)
(* call ended, and the keys it assigned.                                   *)
(***************************************************************************)
Return(a, w) == [argv |-> a, exit |-> "return", w |-> w]

\* die(msg): warn twice, then process.exit(1)
die(a, w) == [argv |-> a, exit |-> "die", w |-> w]

\* a TypeError nobody catches: a method the value does not have
Throw(a) == [argv |-> a, exit |-> "throw", w |-> {}]

(***************************************************************************)
(* The validators.  Each takes the value of its own key and the record.    *)
(***************************************************************************)
\* a faulty variant of profile: the path is joined to the working directory,
\* an absolute one included
profileJoin(value, a) ==
  IF ~Truthy(value) THEN Return(a, {})
  ELSE IF ~IsStr(value) THEN Throw(a)
  ELSE LET profilePath == cwd \o <<"/">> \o untildify(value.s)
       IN  IF ~existsSync(profilePath) THEN die(a, {})
           ELSE IF ~endsWithJson(value.s) /\ ~isDirectory(profilePath) THEN die(a, {})
           ELSE Return([a EXCEPT !.profile = Str(profilePath)], {"profile"})

profile(value, a) ==
  IF ~Truthy(value) THEN Return(a, {})
  ELSE IF ~IsStr(value) THEN Throw(a)
  ELSE LET profilePath == resolve(cwd, untildify(value.s))
       IN  IF ~existsSync(profilePath) THEN die(a, {})
           ELSE IF ~endsWithJson(value.s) /\ ~isDirectory(profilePath) THEN die(a, {})
           ELSE Return([a EXCEPT !.profile = Str(profilePath)], {"profile"})

\* a faulty variant of mode: fatal only when every entry is unknown
modeEvery(value, a) ==
  IF ~Truthy(value) THEN Return([a EXCEPT !.mode = modesList], {"mode"})
  ELSE IF ~IsStr(value) THEN Throw(a)
  ELSE LET l == split(value.s)
       IN  IF includes(l, Str(<<"all">>))
             THEN Return([a EXCEPT !.mode = modesList], {"mode"})
           ELSE IF \A i \in DOMAIN l : ~includes(modesList.a, l[i]) THEN die(a, {})
           ELSE Return([a EXCEPT !.mode = Arr(l)], {"mode"})

mode(value, a) ==
  IF ~Truthy(value) THEN Return([a EXCEPT !.mode = modesList], {"mode"})
  ELSE IF ~IsStr(value) THEN Throw(a)
  ELSE LET l == split(value.s)
       IN  IF includes(l, Str(<<"all">>))
             THEN Return([a EXCEPT !.mode = modesList], {"mode"})
           ELSE IF \E i \in DOMAIN l : ~includes(modesList.a, l[i]) THEN die(a, {})
           ELSE Return([a EXCEPT !.mode = Arr(l)], {"mode"})

\* a faulty variant of include: it stores the catalog for a list of known
\* modes too, the way mode stores its list
includeStoring(value, a) ==
  IF ~Truthy(value) THEN Return(a, {})
  ELSE IF ~(IsStr(value) \/ IsArr(value)) THEN Throw(a)
  ELSE IF (IF IsStr(value) THEN StrIncludesAll(value.s)
                           ELSE includes(value.a, Str(<<"all">>)))
    THEN Return([a EXCEPT !.include = modesList], {"include"})
  ELSE IF IsStr(value) THEN Throw(a)
  ELSE IF \E i \in DOMAIN value.a : ~includes(modesList.a, value.a[i]) THEN die(a, {})
  ELSE Return([a EXCEPT !.include = modesList], {"include"})

include(value, a) ==
  IF ~Truthy(value) THEN Return(a, {})
  ELSE IF ~(IsStr(value) \/ IsArr(value)) THEN Throw(a)
  ELSE IF (IF IsStr(value) THEN StrIncludesAll(value.s)
                           ELSE includes(value.a, Str(<<"all">>)))
    THEN Return([a EXCEPT !.include = modesList], {"include"})
  ELSE IF IsStr(value) THEN Throw(a)
  ELSE IF \E i \in DOMAIN value.a : ~includes(modesList.a, value.a[i]) THEN die(a, {})
  ELSE Return(a, {})

\* a faulty variant of quality: the upper limit is off by one
qualityUpTo13(value, a) ==
  IF ~Truthy(value) THEN Return([a EXCEPT !.quality = defaultParams.quality], {"quality"})
  ELSE LET numeric == parseInt(value)
       IN  IF isNaN(numeric) THEN die(a, {})
           ELSE IF numeric.n < 1 \/ numeric.n > 13 THEN die(a, {})
           ELSE Return([a EXCEPT !.quality = numeric], {"quality"})

quality(value, a) ==
  IF ~Truthy(value) THEN Return([a EXCEPT !.quality = defaultParams.quality], {"quality"})
  ELSE LET numeric == parseInt(value)
       IN  IF isNaN(numeric) THEN die(a, {})
           ELSE IF numeric.n < 1 \/ numeric.n > 12 THEN die(a, {})
           ELSE Return([a EXCEPT !.quality = numeric], {"quality"})

filter(value, a) ==
  IF Truthy(value) /\ ~includes(generatorKeys, value) THEN die(a, {}) ELSE Return(a, {})

padding(value, a) ==
  IF ~Truthy(value) THEN Return([a EXCEPT !.padding = Arr(<<Num(0), Num(0)>>)], {"padding"})
  ELSE IF ~(IsStr(value) \/ IsArr(value)) THEN Throw(a)
  ELSE LET items == IF IsArr(value) THEN value.a ELSE split(value.s)
           sizes == [i \in DOMAIN items |-> parseInt(items[i])]
       IN  IF Len(sizes) > 2 THEN die(a, {})
           ELSE IF \E i \in DOMAIN sizes : isNaN(sizes[i]) \/ sizes[i].n < 0 THEN die(a, {})
           ELSE Return([a EXCEPT !.padding =
                          IF Len(sizes) = 1 THEN Arr(<<sizes[1], sizes[1]>>) ELSE Arr(sizes)],
                       {"padding"})

\* null when no candidate exists
parseIconPath(s) ==
  LET path == untildify(s)
  IN  IF isAbsolute(path) THEN (IF existsSync(path) THEN Str(path) ELSE Null)
      ELSE IF existsSync(resolve(cwd, path)) THEN Str(resolve(cwd, path))
      ELSE IF existsSync(resolve(appDir, path)) THEN Str(resolve(appDir, path))
      ELSE Null

icon(value, a) ==
  IF ~Truthy(value) THEN Return([a EXCEPT !.icon = Str(sampleIcon)], {"icon"})
  ELSE IF ~IsStr(value) THEN Throw(a)
  ELSE LET a1 == [a EXCEPT !.icon = parseIconPath(value.s)]
       IN  IF ~Truthy(a1.icon) THEN die(a1, {"icon"})
           ELSE LET size == getPngSize(a1.icon.s)
                IN  IF size.width = 0 /\ size.height = 0 THEN die(a1, {"icon"})
                    ELSE IF size.width < 64 \/ size.height < 64 THEN die(a1, {"icon"})
                    ELSE Return(a1, {"icon"})

background(value, a) ==
  IF ~Truthy(value) THEN Return(a, {})
  ELSE IF ~IsStr(value) THEN Throw(a)
  ELSE LET a1 == [a EXCEPT !.background = Str(resolve(appDir, untildify(value.s)))]
       IN  IF ~existsSync(a1.background.s) THEN die(a1, {"background"})
           ELSE LET size == getPngSize(a1.background.s)
                IN  IF size.width = 0 /\ size.height = 0 THEN die(a1, {"background"})
                    ELSE IF size.width < 128 \/ size.height < 128
                      THEN die(a1, {"background"})
                    ELSE Return(a1, {"background"})

HexChars ==
  Range(DigitChars) \cup {"a", "b", "c", "d", "e", "f", "A", "B", "C", "D", "E", "F"}

\* /^[0-9A-Fa-f]+$/.test(value)
hexTest(v) == LET s == ToString(v) IN s /= <<>> /\ \A i \in DOMAIN s : s[i] \in HexChars

\* value.length: of a string or an array; undefined (here -1) otherwise
length(v) == IF IsStr(v) THEN Len(v.s) ELSE IF IsArr(v) THEN Len(v.a) ELSE -1

\* a faulty variant of getColorParser: the value is stored without the "#"
getColorParserNoHash(name, defaultValue, value, a) ==
  IF ~Truthy(value)
    THEN Return([a EXCEPT ![name] =
                   IF Truthy(a.themeColor) THEN a.themeColor ELSE defaultValue], {name})
  ELSE IF (length(value) /= 3 /\ length(value) /= 6) \/ ~hexTest(value) THEN die(a, {})
  ELSE Return([a EXCEPT ![name] = Str(ToString(value))], {name})

\* a faulty variant of getColorParser: fatal only when the length and the
\* digits are both wrong
getColorParserAnd(name, defaultValue, value, a) ==
  IF ~Truthy(value)
    THEN Return([a EXCEPT ![name] =
                   IF Truthy(a.themeColor) THEN a.themeColor ELSE defaultValue], {name})
  ELSE IF (length(value) /= 3 /\ length(value) /= 6) /\ ~hexTest(value) THEN die(a, {})
  ELSE Return([a EXCEPT ![name] = Str(<<"#">> \o ToString(value))], {name})

\* the closure getColorParser(name, defaultValue) returns, applied
getColorParser(name, defaultValue, value, a) ==
  IF ~Truthy(value)
    THEN Return([a EXCEPT ![name] =
                   IF Truthy(a.themeColor) THEN a.themeColor ELSE defaultValue], {name})
  ELSE IF (length(value) /= 3 /\ length(value) /= 6) \/ ~hexTest(value) THEN die(a, {})
  ELSE Return([a EXCEPT ![name] = Str(<<"#">> \o ToString(value))], {name})

splashscreenIconRatio(value, a) ==
  IF ~Truthy(value) /\ value /= Num(0)
    THEN Return([a EXCEPT !.splashscreenIconRatio = defaultParams.splashscreenIconRatio],
                {"splashscreenIconRatio"})
  ELSE LET numeric == parseFloat(value)
       IN  IF isNaN(numeric) THEN die(a, {})
           ELSE IF numeric.n < 0 \/ numeric.n > 100 THEN die(a, {})
           ELSE Return([a EXCEPT !.splashscreenIconRatio = numeric],
                       {"splashscreenIconRatio"})

output(value, a) == IF ~Truthy(value) THEN die(a, {}) ELSE Return(a, {})

\* a faulty variant of assets: an empty input stores the catalog, as in mode
assetsDefaultAll(value, a) ==
  IF ~Truthy(value) THEN Return([a EXCEPT !.assets = modesList], {"assets"})
  ELSE IF ~IsStr(value) THEN Throw(a)
  ELSE LET l == split(value.s)
       IN  IF includes(l, Str(<<"all">>))
             THEN Return([a EXCEPT !.assets = modesList], {"assets"})
           ELSE IF \E i \in DOMAIN l : ~includes(modesList.a, l[i]) THEN die(a, {})
           ELSE Return([a EXCEPT !.assets = Arr(l)], {"assets"})

assets(value, a) ==
  IF ~Truthy(value) THEN Return([a EXCEPT !.assets = Arr(<<>>)], {"assets"})
  ELSE IF ~IsStr(value) THEN Throw(a)
  ELSE LET l == split(value.s)
       IN  IF includes(l, Str(<<"all">>))
             THEN Return([a EXCEPT !.assets = modesList], {"assets"})
           ELSE IF \E i \in DOMAIN l : ~includes(modesList.a, l[i]) THEN die(a, {})
           ELSE Return([a EXCEPT !.assets = Arr(l)], {"assets"})

\* the fields getColorParser validates
ColorFields == {"themeColor", "pngColor", "splashscreenColor", "svgColor"}

\* the keys of the registry
Names ==
  { "profile", "mode", "quality", "filter", "padding", "icon", "background",
    "splashscreenIconRatio", "themeColor", "pngColor", "splashscreenColor",
    "svgColor", "include", "output", "assets" }

\* parsers[name](value, argv)
parsers(name, value, a) ==
  CASE name = "profile" -> profile(value, a)
    [] name = "mode" -> mode(value, a)
    [] name = "quality" -> quality(value, a)
    [] name = "filter" -> filter(value, a)
    [] name = "padding" -> padding(value, a)
    [] name = "icon" -> icon(value, a)
    [] name = "background" -> background(value, a)
    [] name = "splashscreenIconRatio" -> splashscreenIconRatio(value, a)
    [] name = "themeColor" -> getColorParser("themeColor", Undef, value, a)
    [] name = "pngColor" -> getColorParser("pngColor", defaultParams.pngColor, value, a)
    [] name = "splashscreenColor" ->
         getColorParser("splashscreenColor", defaultParams.splashscreenColor, value, a)
    [] name = "svgColor" -> getColorParser("svgColor", defaultParams.svgColor, value, a)
    [] name = "include" -> include(value, a)
    [] name = "output" -> output(value, a)
    [] name = "assets" -> assets(value, a)

(***************************************************************************)
(* parseArgv(argv, list): list.forEach, one iteration per step.            *)
(***************************************************************************)
\* a name no validator is registered for
Unregistered == "skipTrim"

ListNames == Names \cup {Unregistered}

\* a faulty variant of AfterCall: die() returns to the loop
AfterCallDieReturns(exit, p, l) ==
  IF exit = "throw" THEN "threw"
  ELSE IF p = Len(l) THEN "done" ELSE "running"

\* how the process stands after the validator of list[p] ended with `exit`
AfterCall(exit, p, l) ==
  IF exit = "die" THEN "dead"
  ELSE IF exit = "throw" THEN "threw"
  ELSE IF p = Len(l) THEN "done" ELSE "running"

\* fn(argv[ name ], argv) for a registered name
ForEachCall ==
  /\ status = "running"
  /\ pos <= Len(list)
  /\ list[pos] \in Names
  /\ LET name == list[pos]
         r == parsers(name, argv[name], argv)
     IN  /\ argv' = r.argv
         /\ status' = AfterCall(r.exit, pos, list)
         /\ pos' = IF AfterCall(r.exit, pos, list) \in {"dead", "threw"} THEN pos ELSE pos + 1
         /\ calls' = Append(calls, [ name |-> name, exit |-> r.exit, w |-> r.w,
                                     arg |-> argv[name], res |-> r.argv[name],
                                     theme |-> argv.themeColor ])
  /\ UNCHANGED <<list, run, raw>>

\* fn === void 0: die before anything is read or called
ForEachDie ==
  /\ status = "running"
  /\ pos <= Len(list)
  /\ list[pos] \notin Names
  /\ status' = "dead"
  /\ UNCHANGED <<argv, list, pos, run, raw, calls>>

\* the caller hands the record a completed parseArgv left to parseArgv again,
\* with the same list
Rerun ==
  /\ status = "done"
  /\ run = 1
  /\ run' = 2
  /\ pos' = 1
  /\ raw' = argv
  /\ calls' = <<>>
  /\ status' = IF list = <<>> THEN "done" ELSE "running"
  /\ UNCHANGED <<argv, list>>

(***************************************************************************)
(* The inputs.                                                             *)
(***************************************************************************)
AllUndef == [n \in Names |-> Undef]

\* the values a caller hands in under each name
RawValues(name) ==
  CASE name = "profile" ->
         { Undef, Str(<<"prof", ".json">>), Str(<<"prof">>), Str(<<"notes", ".txt">>),
           Str(<<"gone", ".json">>) }
    [] name \in {"mode", "assets"} ->
         { Undef, Str(<<"all">>), Str(<<"spa", ",", "pwa">>), Str(<<"spa", ",", "xyz">>) }
    [] name = "quality" -> { Undef, Str(<<"7">>), Str(<<"1", "3">>), Num(0) }
    [] name = "filter" -> { Undef, Str(<<"png">>), Str(<<"ico">>) }
    [] name = "padding" ->
         { Undef, Str(<<"5">>), Str(<<"5", ",", "1", "0">>), Str(<<"-", "1", ",", "2">>),
           Arr(<<>>) }
    [] name = "icon" ->
         { Undef, Str(<<"icon", ".png">>), Str(<<"small", ".png">>), Str(<<"gone", ".png">>),
           Str(<<"~", "/", "icon", ".png">>), Str(<<"notes", ".txt">>) }
    [] name = "background" ->
         { Undef, Str(<<"bg", ".png">>), Str(<<"wide", ".png">>), Str(<<"notes", ".txt">>),
           Str(<<"gone", ".png">>) }
    [] name = "splashscreenIconRatio" ->
         { Undef, Num(0), Str(<<"4", "0">>), Str(<<"1", "0", "1">>) }
    [] name = "themeColor" ->
         { Undef, Str(<<"f", "f", "f">>), Str(<<"z", "z">>) }
    [] name \in {"pngColor", "splashscreenColor", "svgColor"} ->
         { Undef, Str(<<"a", "B", "c">>), Str(<<"g", "g", "g">>) }
    [] name = "include" ->
         { Undef, Arr(<<Str(<<"all">>)>>), Arr(<<Str(<<"spa">>)>>), Arr(<<Str(<<"xyz">>)>>) }
    [] name = "output" -> { Undef, Str(<<"out">>) }

RECURSIVE Records(_, _)
\* the records that extend f with a value of RawValues for every name of S
Records(S, f) ==
  IF S = {} THEN {f}
  ELSE LET n == CHOOSE x \in S : TRUE
       IN  UNION { Records(S \ {n}, [f EXCEPT ![n] = v]) : v \in RawValues(n) }

Lists == UNION { [1..k -> ListNames] : k \in 0..MaxList }

\* a call starts on record r with list l
Start(l, r) ==
  /\ list = l
  /\ raw = r
  /\ argv = r
  /\ pos = 1
  /\ status = IF l = <<>> THEN "done" ELSE "running"
  /\ run = 1
  /\ calls = <<>>

\* the names whose value a run over list l reads: those of the list, and
\* themeColor when the list holds a color field
ReadBy(l) ==
  (Range(l) \cap Names)
    \cup (IF Range(l) \cap ColorFields /= {} THEN {"themeColor"} ELSE {})

\* any list of at most MaxList names, repeated and unregistered ones
\* included; the names no validator of the run reads are absent from the record
Init == \E l \in Lists : \E r \in Records(ReadBy(l), AllUndef) : Start(l, r)

Next == ForEachCall \/ ForEachDie \/ Rerun

Spec == Init /\ [][Next]_vars

(***************************************************************************)
(* One validator on one value, the value drawn from a wider set.           *)
(***************************************************************************)
\* the sequences over S of length lo..hi
SeqsOver(S, lo, hi) == UNION { [1..k -> S] : k \in lo..hi }

ModeAtoms == {"all", "spa", "pwa", "xyz", ","}

ModeEntries == { Str(<<w>>) : w \in {"all", "spa", "pwa", "xyz"} } \cup { Str(<<>>) }

ModeInputs == {Undef} \cup { Str(s) : s \in SeqsOver(ModeAtoms, 0, MaxTokens) }

IncludeInputs ==
  {Undef, Str(<<"all">>), Str(<<"spa">>)}
    \cup { Arr(a) : a \in SeqsOver(ModeEntries, 0, MaxEntries) }

InitModes ==
  \/ \E n \in {"mode", "assets"} :
       \E v \in ModeInputs : Start(<<n>>, [AllUndef EXCEPT ![n] = v])
  \/ \E v \in IncludeInputs : Start(<<"include">>, [AllUndef EXCEPT !.include = v])

SpecModes == InitModes /\ [][ForEachCall]_vars

ColorNames == ColorFields

Dependents == ColorNames \ {"themeColor"}

ColorChars == {"f", "A", "0", "g"}

ColorInputs ==
  { Str(s) : s \in SeqsOver(ColorChars, 0, MaxColorLen) }
    \cup { Undef, Str(<<"#", "f", "f", "f">>), Str(<<"f", "f", " ">>), Num(0), Num(123),
           Num(123456), Arr(<<>>), Arr(<<Str(<<"f">>), Str(<<"f">>), Str(<<"f">>)>>),
           Arr(<<Str(<<"f", "f", "f">>)>>) }

InitColor ==
  \E c \in ColorNames :
    \E v \in ColorInputs :
      \E th \in (IF c = "themeColor" THEN {v} ELSE RawValues("themeColor")) :
        Start(<<c>>, [AllUndef EXCEPT ![c] = v, !.themeColor = th])

SpecColor == InitColor /\ [][ForEachCall]_vars

QualityChars == {"0", "1", "2", "3", "7", "x", "-", ".", " "}

QualityInputs ==
  { Str(s) : s \in SeqsOver(QualityChars, 0, MaxNumLen) }
    \cup { Undef } \cup { Num(n) : n \in {-1, 0, 1, 7, 12, 13} }

PaddingChars == {"1", "0", "5", "-", "x", ","}

PaddingItems == { Num(5), Num(0), Num(-1), Str(<<"7">>), Str(<<"x">>), Undef }

PaddingInputs ==
  { Str(s) : s \in SeqsOver(PaddingChars, 0, MaxPadLen) }
    \cup { Undef, Str(<<"5", ",", "1", "0", ",", "1", "5">>) }
    \cup { Arr(a) : a \in SeqsOver(PaddingItems, 0, MaxEntries) }

InitNumeric ==
  \/ \E v \in QualityInputs : Start(<<"quality">>, [AllUndef EXCEPT !.quality = v])
  \/ \E v \in PaddingInputs : Start(<<"padding">>, [AllUndef EXCEPT !.padding = v])

SpecNumeric == InitNumeric /\ [][ForEachCall]_vars

(***************************************************************************)
(* Properties of a parseArgv run (Spec).                                   *)
(***************************************************************************)
\* the validator of position k ran and was fatal, or position k holds an
\* unregistered name and the loop reached it
FatalAt(k) ==
  \/ k \in DOMAIN calls /\ calls[k].exit = "die"
  \/ status = "dead" /\ pos = k /\ list[k] \notin Names

\* the validators that ran are those of a prefix of the list, in its order,
\* and nothing ran past a fatal position
RanInOrderAndStopped ==
  /\ Len(calls) <= Len(list)
  /\ \A k \in DOMAIN calls : calls[k].name = list[k]
  /\ \A k \in DOMAIN calls : calls[k].exit /= "return" => k = Len(calls)
  /\ \A k \in DOMAIN list : list[k] \notin Names => Len(calls) < k
  /\ \A k \in DOMAIN list : FatalAt(k) => status = "dead" /\ pos = k

IsHexDigit(c) ==
  c \in { "0", "1", "2", "3", "4", "5", "6", "7", "8", "9",
          "a", "b", "c", "d", "e", "f", "A", "B", "C", "D", "E", "F" }

\* "#" followed by 3 or 6 hexadecimal digits
IsResolvedColor(v) ==
  /\ IsStr(v)
  /\ Len(v.s) \in {4, 7}
  /\ v.s[1] = "#"
  /\ \A i \in 2..Len(v.s) : IsHexDigit(v.s[i])

IsKnownModes(v) == IsArr(v) /\ \A i \in DOMAIN v.a : v.a[i] \in Range(modesList.a)

\* value v, stored under `name` by a call given `arg`, meets every constraint
\* the validator of `name` puts on a value (a default or fallback the
\* validator stores for an empty input is under no constraint of its own)
Checked(name, arg, v) ==
  CASE name = "profile" ->
         IsStr(v) /\ existsSync(v.s) /\ (endsWithJson(v.s) \/ isDirectory(v.s))
    [] name \in {"mode", "assets", "include"} -> IsKnownModes(v)
    [] name = "quality" ->
         v = defaultParams.quality \/ (IsNum(v) /\ v.n >= 1 /\ v.n <= 12)
    [] name = "padding" ->
         IsArr(v) /\ Len(v.a) <= 2 /\ \A i \in DOMAIN v.a : IsNum(v.a[i]) /\ v.a[i].n >= 0
    [] name = "icon" ->
         IsStr(v) /\ existsSync(v.s) /\ disk[v.s].width >= 64 /\ disk[v.s].height >= 64
    [] name = "background" ->
         IsStr(v) /\ existsSync(v.s) /\ disk[v.s].width >= 128 /\ disk[v.s].height >= 128
    [] name = "splashscreenIconRatio" ->
         v = defaultParams.splashscreenIconRatio \/ (IsNum(v) /\ v.n >= 0 /\ v.n <= 100)
    [] name \in ColorNames -> ~Truthy(arg) \/ IsResolvedColor(v)
    [] OTHER -> FALSE

\* C2 as stated: in every state of a run, the state a fatal error ends it in
\* included, every value a validator has written under its own key has
\* passed all of that validator's checks.
C2_WrittenIsChecked ==
  \A k \in DOMAIN calls :
    calls[k].name \in calls[k].w => Checked(calls[k].name, calls[k].arg, calls[k].res)

\* C2, amended: every value written by a validator that returned has passed
\* all of that validator's checks, and no validator but icon and background
\* writes before a fatal error; icon and background assign the resolved path
\* first and check it afterwards, so the state their fatal error ends the run
\* in holds a value that failed the checks.
C2_ReturnedIsChecked ==
  \A k \in DOMAIN calls :
    /\ calls[k].w \subseteq {calls[k].name}
    /\ (calls[k].name \in calls[k].w /\ calls[k].exit = "return")
         => Checked(calls[k].name, calls[k].arg, calls[k].res)
    /\ (calls[k].exit /= "return" /\ calls[k].w /= {})
         => calls[k].name \in {"icon", "background"}

\* a run ended by icon's size check, the too small file's path in the record
C2_Witness ==
  /\ status = "dead"
  /\ calls /= <<>>
  /\ calls[Len(calls)].name = "icon"
  /\ calls[Len(calls)].w = {"icon"}
  /\ IsStr(argv.icon)
  /\ \E k \in DOMAIN calls : calls[k].exit = "return" /\ calls[k].w /= {}

\* what a color validator given an empty input stores, when themeColor holds
\* theme: the resolved theme color if there is one, else the field's default
StoresResolvedOrDefault(c) ==
  \/ IsResolvedColor(c.theme) /\ c.res = c.theme
  \/ ~Truthy(c.theme) /\ c.res = defaultParams[c.name]

\* C6 as stated: for every list, a dependent color field given an empty input
\* stores themeColor's resolved value if there is one and its own default
\* otherwise; a raw themeColor is never copied.
C6_FallbackIsResolved ==
  \A k \in DOMAIN calls :
    (calls[k].name \in Dependents /\ ~Truthy(calls[k].arg) /\ calls[k].exit = "return")
      => StoresResolvedOrDefault(calls[k])

\* C6, amended: the same, for a dependent color field that stands in the list
\* after themeColor; where themeColor stands later or is not in the list, the
\* raw themeColor input is copied as it is.
C6_FallbackAfterTheme ==
  \A k \in DOMAIN calls :
    (/\ calls[k].name \in Dependents
     /\ ~Truthy(calls[k].arg)
     /\ calls[k].exit = "return"
     /\ \E j \in 1..(k - 1) : calls[j].name = "themeColor")
      => StoresResolvedOrDefault(calls[k])

\* themeColor was validated, then a dependent field with no input took it
C6_Witness ==
  \E k \in DOMAIN calls :
    /\ calls[k].name \in Dependents
    /\ ~Truthy(calls[k].arg)
    /\ \E j \in 1..(k - 1) : calls[j].name = "themeColor" /\ Truthy(calls[j].arg)
    /\ calls[k].res = calls[k].theme
    /\ IsResolvedColor(argv[calls[k].name])

\* the second call completed and left the record as the first call left it
SecondRunSame == status \notin {"dead", "threw"} /\ (status = "done" => argv = raw)

\* C7 as stated: parseArgv on the record a completed parseArgv left, with the
\* same list, completes and leaves every field as it was.
C7_Idempotent == run = 2 => SecondRunSame

\* the names whose validator accepts what it stored
Restorable == Names \ ({"mode", "assets"} \cup Dependents)

\* C7, amended: the same, for a list that names none of mode, assets,
\* pngColor, splashscreenColor and svgColor, and names themeColor only when
\* its input was empty (the files being as they were).  mode and assets
\* store an array, which the second call cannot split; a color field stores
\* "#" and the digits, which the second call rejects.
C7_IdempotentRestorable ==
  (/\ run = 2
   /\ Range(list) \subseteq Restorable
   /\ "themeColor" \in Range(list) => ~Truthy(raw.themeColor))
    => SecondRunSame

\* a second call that normalized two values again and changed neither
C7_Witness ==
  /\ run = 2
  /\ status = "done"
  /\ Len(calls) = 2
  /\ calls[1].name /= calls[2].name
  /\ \A k \in DOMAIN calls : calls[k].w /= {} /\ Truthy(calls[k].arg)
  /\ Range(list) \subseteq Restorable
  /\ argv = raw

(***************************************************************************)
(* Properties of one validator on one value (SpecModes, SpecColor,         *)
(* SpecNumeric): the list holds one name, raw is the input, and the call   *)
(* has been made once calls is not empty.                                  *)
(***************************************************************************)
Called(names) == calls /= <<>> /\ list[1] \in names

AllEntry == Str(<<"all">>)

\* the entries of the input list: of the comma-separated string given to
\* mode and assets, of the array given to include
Entries(v) == IF IsArr(v) THEN v.a ELSE IF IsStr(v) THEN split(v.s) ELSE <<>>

IsKnownMode(e) == \E i \in DOMAIN modesList.a : modesList.a[i] = e

\* an entry that is neither a mode of the catalog nor "all"
HasUnknown(es) == \E i \in DOMAIN es : ~IsKnownMode(es[i]) /\ es[i] /= AllEntry

HasAll(es) == \E i \in DOMAIN es : es[i] = AllEntry

\* a non-empty list: a non-empty string for mode and assets, a non-empty
\* array for include
IsListInput(n, v) ==
  IF n = "include" THEN IsArr(v) /\ v.a /= <<>> ELSE IsStr(v) /\ v.s /= <<>>

\* C3 as stated: for mode, assets and include, a non-empty list with an
\* unknown entry is fatal, wherever the entry stands and whatever else the
\* list holds, "all" included.
C3_UnknownIsFatal ==
  (/\ Called({"mode", "assets", "include"})
   /\ IsListInput(list[1], raw[list[1]])
   /\ HasUnknown(Entries(raw[list[1]])))
    => status = "dead"

\* C3, amended: for mode, assets and include, a non-empty list with an
\* unknown entry and no "all" entry is fatal, wherever the unknown entry
\* stands; with an "all" entry the list is accepted, unknown entries and all.
C3_UnknownWithoutAllIsFatal ==
  (/\ Called({"mode", "assets", "include"})
   /\ IsListInput(list[1], raw[list[1]])
   /\ HasUnknown(Entries(raw[list[1]])))
    => IF HasAll(Entries(raw[list[1]]))
         THEN status = "done" /\ argv[list[1]] = modesList
         ELSE status = "dead" /\ argv = raw

\* mode was fatal on a list whose unknown entry follows a known one
C3_Witness ==
  /\ Called({"mode"})
  /\ status = "dead"
  /\ Len(Entries(raw.mode)) >= 2
  /\ IsKnownMode(Entries(raw.mode)[1])
  /\ HasUnknown(Entries(raw.mode))

\* C4: for mode and assets, an input with an "all" entry, at any position,
\* stores the full catalog; an empty or absent input stores the full catalog
\* for mode and the empty list for assets; any other input whose entries are
\* all known modes stores the entries in their input order.
C4_ModeListStored ==
  Called({"mode", "assets"}) =>
    LET n == list[1]
        v == raw[n]
        es == Entries(v)
    IN  IF v = Undef \/ v = Str(<<>>)
          THEN /\ status = "done"
               /\ argv[n] = IF n = "mode" THEN modesList ELSE Arr(<<>>)
        ELSE IF HasAll(es) THEN status = "done" /\ argv[n] = modesList
        ELSE (\A i \in DOMAIN es : IsKnownMode(es[i]))
               => status = "done" /\ argv[n] = Arr(es)

\* assets took a list with "all" behind a known and an unknown entry
C4_Witness ==
  /\ Called({"assets"})
  /\ Len(Entries(raw.assets)) = 3
  /\ Entries(raw.assets)[3] = AllEntry
  /\ IsKnownMode(Entries(raw.assets)[1])
  /\ HasUnknown(Entries(raw.assets))
  /\ argv.assets = modesList

\* C9 as stated: whenever the include validator is not fatal, the record
\* after it ran is the record before it ran, the include entry included.
C9_IncludeStoresNothing ==
  (Called({"include"}) /\ status = "done") => argv = raw

\* C9, amended: whenever the include validator is not fatal, every entry but
\* include is as before; the include entry is as before for an absent input
\* and for a list of known modes, and is replaced by the full catalog for a
\* list with an "all" entry.
C9_IncludeStoresOnlyAll ==
  (Called({"include"}) /\ status = "done") =>
    IF (IsArr(raw.include) /\ HasAll(raw.include.a)) \/ raw.include = AllEntry
      THEN argv = [raw EXCEPT !.include = modesList] /\ argv /= raw
      ELSE argv = raw

\* include accepted a list of two known modes and left the record alone
C9_Witness ==
  /\ Called({"include"})
  /\ status = "done"
  /\ IsArr(raw.include)
  /\ Len(raw.include.a) = 2
  /\ ~HasAll(raw.include.a)
  /\ argv = raw

\* a string of exactly 3 or exactly 6 hexadecimal digits
IsHexColor(v) ==
  IsStr(v) /\ Len(v.s) \in {3, 6} /\ \A i \in DOMAIN v.s : IsHexDigit(v.s[i])

\* C5: a non-empty input of a color field is accepted exactly when it is a
\* string of 3 or of 6 hexadecimal digits; accepted, the record stores "#"
\* and the unchanged value; rejected, validation is fatal and the entry of
\* the field is not written.
C5_ColorAcceptedIffHex ==
  (Called(ColorNames) /\ Truthy(raw[list[1]])) =>
    LET n == list[1]
    IN  IF IsHexColor(raw[n])
          THEN /\ status = "done"
               /\ argv = [raw EXCEPT ![n] = Str(<<"#">> \o raw[n].s)]
          ELSE /\ status = "dead"
               /\ calls[1].w = {}
               /\ argv = raw

\* a 6 digit color in mixed case was accepted by a dependent field
C5_Witness ==
  /\ Called(Dependents)
  /\ status = "done"
  /\ IsStr(raw[list[1]])
  /\ Len(raw[list[1]].s) = 6
  /\ \E i \in 1..6 : raw[list[1]].s[i] = "A"
  /\ \E i \in 1..6 : raw[list[1]].s[i] = "f"
  /\ Len(argv[list[1]].s) = 7

\* an optional "-" and then decimal digits only
IsIntegerString(s) ==
  LET ds == IF s /= <<>> /\ s[1] = "-" THEN Tail(s) ELSE s
  IN  ds /= <<>> /\ \A i \in DOMAIN ds : IsDigit(ds[i])

\* the value denotes an integer: a number, or a string that spells one
DenotesInteger(v) == IsNum(v) \/ (IsStr(v) /\ IsIntegerString(v.s))

\* the integer a value that denotes one denotes
IntegerOf(v) ==
  IF IsNum(v) THEN v.n
  ELSE IF v.s[1] = "-" THEN -DigitsValue(Tail(v.s), 0) ELSE DigitsValue(v.s, 0)

\* C8 as stated: a padding input (an array or a comma-separated string) is
\* fatal if it holds more than two values, a non-numeric value or a negative
\* value; otherwise the record stores exactly two non-negative integers:
\* [0,0] for an empty input, [v,v] for one value v, [a,b] for two.
C8_PaddingTwoIntegers ==
  Called({"padding"}) =>
    LET v == raw.padding
        es == IF Truthy(v) THEN Entries(v) ELSE <<>>
        bad == \/ Len(es) > 2
               \/ \E i \in DOMAIN es : ~DenotesInteger(es[i])
               \/ \E i \in DOMAIN es : DenotesInteger(es[i]) /\ IntegerOf(es[i]) < 0
    IN  IF bad THEN status = "dead"
        ELSE /\ status = "done"
             /\ argv.padding =
                  IF Len(es) = 0 THEN Arr(<<Num(0), Num(0)>>)
                  ELSE IF Len(es) = 1
                    THEN Arr(<<Num(IntegerOf(es[1])), Num(IntegerOf(es[1]))>>)
                  ELSE Arr(<<Num(IntegerOf(es[1])), Num(IntegerOf(es[2]))>>)

\* C10 as stated: an empty or absent quality input stores the default; any
\* other input, a string or a number, is accepted only if it denotes an
\* integer of 1..12, which is then stored; a number outside 1..12, 0 and 13
\* included, and a non-numeric input are fatal.
C10_QualityInRange ==
  Called({"quality"}) =>
    LET v == raw.quality
    IN  IF v = Undef \/ v = Str(<<>>)
          THEN status = "done" /\ argv.quality = defaultParams.quality
        ELSE IF DenotesInteger(v) /\ IntegerOf(v) >= 1 /\ IntegerOf(v) <= 12
          THEN status = "done" /\ argv.quality = Num(IntegerOf(v))
        ELSE status = "dead"

====
